---- MODULE Spec2Model ----
(***************************************************************************)
(* The XAPI session facade of jsxapi (src/src/xapi/index.js):               *)
(* request/response correlation, inbound routing, lifecycle pass-through   *)
(* and command envelopes, with the section components of                  *)
(* src/unnamed/part_000 (Config, Event, Status and their mixins).          *)
(*                                                                         *)
(* Spec is the session on a transport that delivers its events             *)
(* asynchronously: each one is handled in a step of its own, never inside  *)
(* a call the session makes on the transport.  SpecFeedback is the         *)
(* feedback side of the session, SpecReentrant a transport that may emit   *)
(* data inside backend.execute, and SpecLive a transport that answers      *)
(* every request it was handed exactly once.                               *)
(*                                                                         *)
(* JavaScript values are modelled as follows.                              *)
(*  - A scalar (an id, a result, an error) is a TLA+ string.               *)
(*  - The text of a path or of a method name is a sequence of lexemes:     *)
(*    each lexeme is either one delimiter character ("/" or " ") or a      *)
(*    delimiter-free run of characters, so "Audio Volume" is               *)
(*    <<"Audio", " ", "Volume">>.                                          *)
(*  - An object is a TLA+ record; a property that is absent (undefined)    *)
(*    is a field that is not in the record's DOMAIN.  The argument list    *)
(*    of a call is such a record too: an omitted argument is an absent     *)
(*    field.                                                               *)
(*  - A promise is a record [state, value]; promise k is the promise       *)
(*    returned by the k-th call of execute.  The resolve/reject pair that  *)
(*    execute stores in this.requests is the index k of its promise.       *)
(*                                                                         *)
(* op, backendCalls, emitted, dispatched, invoked and thrown describe the   *)
(* handler that ran last: its input and what it produced.  issued is the   *)
(* history of the ids carried by the envelopes of the successive execute   *)
(* calls.                                                                  *)
(*                                                                         *)
(* registrations and created are the state of the session's Feedback       *)
(* object: the live registrations in the order of their creation, and the  *)
(* number of registrations created so far (a deactivation handle is the    *)
(* number of the registration it was returned for).                        *)
(*                                                                         *)
(* inFlight is the state of the transport: the ids of the envelopes it     *)
(* accepted and has not delivered a response for.  handoff is the call of  *)
(* backend.execute the session is inside of, when there is one.            *)
(***************************************************************************)
EXTENDS Integers, Sequences, FiniteSets, TLC

VARIABLES requestId, requests, promises, issued,
          op, backendCalls, emitted, dispatched, thrown,
          registrations, created, invoked,
          inFlight, handoff

vars == <<requestId, requests, promises, issued,
          op, backendCalls, emitted, dispatched, thrown,
          registrations, created, invoked,
          inFlight, handoff>>

\* The number of execute calls of one session that the model follows.
MaxRequests == 2

\* The number of feedback registrations of one session that the model follows.
MaxRegistrations == 2

----------------------------------------------------------------------------
(* JavaScript helpers *)

\* The value undefined.
Undefined == "undefined"

\* The value null.
Null == "null"

\* The object {} (and the empty property map this.requests starts as).
EmptyObject == [k \in {} |-> Undefined]

\* obj.key: the property when obj has it, undefined otherwise.
Get(obj, key) == IF key \in DOMAIN obj THEN obj[key] ELSE Undefined

\* Object.assign(target, source): source's properties override target's.
ObjectAssign(target, source) ==
    [k \in DOMAIN target \cup DOMAIN source |->
        IF k \in DOMAIN source THEN source[k] ELSE target[k]]

\* delete obj[key]
Delete(obj, key) == [k \in DOMAIN obj \ {key} |-> obj[k]]

\* Number.prototype.toString()
toString(n) == ToString(n)

\* String.prototype.split(delimiter) on a sequence of lexemes.
RECURSIVE split(_, _)
split(s, d) ==
    IF \E i \in 1..Len(s) : s[i] = d
    THEN LET i == CHOOSE j \in 1..Len(s) :
                      s[j] = d /\ \A h \in 1..(j - 1) : s[h] # d
         IN  <<SubSeq(s, 1, i - 1)>> \o split(SubSeq(s, i + 1, Len(s)), d)
    ELSE <<s>>

\* Array.prototype.join(separator): the text of the joined segments.
RECURSIVE join(_, _)
join(arr, sep) ==
    IF arr = <<>> THEN <<>>
    ELSE IF Len(arr) = 1 THEN arr[1]
    ELSE arr[1] \o <<sep>> \o join(Tail(arr), sep)

----------------------------------------------------------------------------
(* Collaborators of the facade that the session calls *)

\* normalizePath(path): a path given as an array is copied unchanged; a string
\* is split on "/" when it holds a slash and on whitespace otherwise.
normalizePath(path) ==
    IF "arr" \in DOMAIN path THEN path.arr
    ELSE IF \E i \in 1..Len(path.str) : path.str[i] = "/"
         THEN split(path.str, "/")
         ELSE split(path.str, " ")

\* rpc.createRequest(id, method, params): the envelope { id, method, params },
\* without a params property when params is undefined.
createRequest(id, method, args) ==
    ObjectAssign([id |-> id, method |-> method],
                 IF "params" \in DOMAIN args THEN [params |-> args.params]
                 ELSE EmptyObject)

\* The method name that marks an inbound payload as a feedback notification.
FeedbackEvent == <<"xFeedback", "/", "Event">>

----------------------------------------------------------------------------
(* The Feedback object of the session (./feedback) *)

\* The params of a feedback notification are a tree of objects whose leaves
\* are scalars; a node of the tree is tagged with its kind.
Obj(props) == [kind |-> "object", props |-> props]
Scalar(value) == [kind |-> "scalar", value |-> value]

\* The path a notification carries in the shape of its payload: the chain of
\* property names from the root down to the data (the payloads of the model
\* have one property at each level).
RECURSIVE PathOf(_)
PathOf(node) ==
    IF node.kind = "scalar" \/ DOMAIN node.props = {} THEN <<>>
    ELSE LET key == CHOOSE k \in DOMAIN node.props : TRUE
         IN  <<<<key>>>> \o PathOf(node.props[key])

\* A registration path matches a notification path when it is equal to it or
\* a prefix of it, segment by segment from the root.
matches(registrationPath, notificationPath) ==
    /\ Len(registrationPath) <= Len(notificationPath)
    /\ \A i \in 1..Len(registrationPath) :
          registrationPath[i] = notificationPath[i]

\* feedback.on(path, listener) and feedback.once(path, listener): a new
\* registration, after the ones that exist; the returned handle is its number.
\* origin holds what the caller was given (the section and the path as
\* passed to the section), kept with the registration for the properties.
feedbackRegister(path, listener, once, origin) ==
    /\ created' = created + 1
    /\ registrations' =
          Append(registrations,
                 [handle |-> created + 1, path |-> path, listener |-> listener,
                  once |-> once, origin |-> origin])

\* The deactivation handle of registration number handle: removes that
\* registration when it is still there.
deactivate(handle) ==
    /\ registrations' = SelectSeq(registrations, LAMBDA r : r.handle # handle)
    /\ UNCHANGED created

\* feedback.off(): removes all registrations of this Feedback object.
feedbackOff ==
    /\ registrations' = <<>>
    /\ UNCHANGED created

\* feedback.dispatch(params): every registration whose path matches the
\* notification's path has its listener called with the params, in the order
\* of registration; a once registration that was called is removed.
feedbackDispatch(args) ==
    LET path == IF "params" \in DOMAIN args THEN PathOf(args.params) ELSE <<>>
        hit(r) == matches(r.path, path)
        called == SelectSeq(registrations, hit)
    IN  /\ invoked' = [i \in 1..Len(called) |->
                          [handle |-> called[i].handle,
                           listener |-> called[i].listener,
                           args |-> args]]
        /\ registrations' =
              SelectSeq(registrations, LAMBDA r : ~(r.once /\ hit(r)))
        /\ UNCHANGED created

----------------------------------------------------------------------------
(* Promises *)

Pending == [state |-> "pending", value |-> Undefined]

\* resolve(value) / reject(value) of a promise: the first settlement wins, a
\* later one has no effect.
Settle(p, state, value) ==
    IF p.state = "pending" THEN [state |-> state, value |-> value] ELSE p

----------------------------------------------------------------------------
(* The session *)

\* The session is not inside a call of backend.execute.
NoHandoff == [active |-> FALSE]

\* XAPI constructor: requestId = 1, requests = {}.
Init ==
    /\ requestId = 1
    /\ requests = EmptyObject
    /\ promises = <<>>
    /\ issued = <<>>
    /\ op = [name |-> "constructor"]
    /\ backendCalls = <<>>
    /\ emitted = <<>>
    /\ dispatched = <<>>
    /\ thrown = "none"
    /\ registrations = <<>>
    /\ created = 0
    /\ invoked = <<>>
    /\ inFlight = {}
    /\ handoff = NoHandoff

\* What the transport's execute(envelope) may do with a handoff: return, or
\* throw a transport error.
BackendOutcomes == {"ok", "EPIPE"}

\* nextRequestId() without the increment.
nextRequestId_noIncrement(id) ==
    /\ id = toString(requestId)
    /\ requestId' = requestId

\* nextRequestId(): returns the counter's value as a string and increments it.
nextRequestId(id) ==
    /\ id = toString(requestId)
    /\ requestId' = requestId + 1

\* execute registering the callbacks under the counter's value after the
\* increment instead of under the id of the envelope.
execute_registersUnderCounter(method, args, outcome) ==
    \E id \in {toString(n) : n \in 0..(MaxRequests + 1)} :
        /\ nextRequestId(id)
        /\ backendCalls' = <<[call |-> "execute",
                              request |-> createRequest(id, method, args)]>>
        /\ issued' = Append(issued, id)
        /\ IF outcome = "ok"
           THEN /\ promises' = Append(promises, Pending)
                /\ requests' = ObjectAssign(requests,
                                   [k \in {toString(requestId + 1)} |->
                                       Len(promises) + 1])
           ELSE /\ promises' = Append(promises,
                                   Settle(Pending, "rejected", outcome))
                /\ requests' = requests
        /\ inFlight' = IF outcome = "ok" THEN inFlight \cup {id} ELSE inFlight
        /\ emitted' = <<>>
        /\ dispatched' = <<>>
        /\ thrown' = "none"

\* execute giving the id back when the handoff fails.
execute_reusesFailedId(method, args, outcome) ==
    \E id \in {toString(n) : n \in 0..(MaxRequests + 1)} :
        /\ id = toString(requestId)
        /\ requestId' = IF outcome = "ok" THEN requestId + 1 ELSE requestId
        /\ backendCalls' = <<[call |-> "execute",
                              request |-> createRequest(id, method, args)]>>
        /\ issued' = Append(issued, id)
        /\ IF outcome = "ok"
           THEN /\ promises' = Append(promises, Pending)
                /\ requests' = ObjectAssign(requests,
                                   [k \in {id} |-> Len(promises) + 1])
           ELSE /\ promises' = Append(promises,
                                   Settle(Pending, "rejected", outcome))
                /\ requests' = requests
        /\ inFlight' = IF outcome = "ok" THEN inFlight \cup {id} ELSE inFlight
        /\ emitted' = <<>>
        /\ dispatched' = <<>>
        /\ thrown' = "none"

\* execute registering the callbacks before the handoff.
execute_registersBeforeHandoff(method, args, outcome) ==
    \E id \in {toString(n) : n \in 0..(MaxRequests + 1)} :
        /\ nextRequestId(id)
        /\ backendCalls' = <<[call |-> "execute",
                              request |-> createRequest(id, method, args)]>>
        /\ issued' = Append(issued, id)
        /\ IF outcome = "ok"
           THEN /\ promises' = Append(promises, Pending)
                /\ requests' = ObjectAssign(requests,
                                   [k \in {id} |-> Len(promises) + 1])
           ELSE /\ promises' = Append(promises,
                                   Settle(Pending, "rejected", outcome))
                /\ requests' = ObjectAssign(requests,
                                   [k \in {id} |-> Len(promises) + 1])
        /\ inFlight' = IF outcome = "ok" THEN inFlight \cup {id} ELSE inFlight
        /\ emitted' = <<>>
        /\ dispatched' = <<>>
        /\ thrown' = "none"

\* execute(method, params): the promise executor runs synchronously; a throw
\* of backend.execute inside it rejects the promise and skips the
\* registration.
execute(method, args, outcome) ==
    \E id \in {toString(n) : n \in 0..(MaxRequests + 1)} :
        /\ nextRequestId(id)
        /\ backendCalls' = <<[call |-> "execute",
                              request |-> createRequest(id, method, args)]>>
        /\ issued' = Append(issued, id)
        /\ IF outcome = "ok"
           THEN /\ promises' = Append(promises, Pending)
                /\ requests' = ObjectAssign(requests,
                                   [k \in {id} |-> Len(promises) + 1])
           ELSE /\ promises' = Append(promises,
                                   Settle(Pending, "rejected", outcome))
                /\ requests' = requests
        /\ inFlight' = IF outcome = "ok" THEN inFlight \cup {id} ELSE inFlight
        /\ emitted' = <<>>
        /\ dispatched' = <<>>
        /\ thrown' = "none"

\* The methods and params of the direct execute calls the model makes.
ExecuteInputs ==
    { [method |-> <<"xGet">>,
       params |-> [Path |-> <<<<"Status">>, <<"Audio">>, <<"Volume">>>>]],
      [method |-> <<"xFeedback", "/", "Subscribe">>] }

Execute ==
    /\ Len(promises) < MaxRequests
    /\ \E args \in ExecuteInputs, outcome \in BackendOutcomes :
        /\ execute(args.method, args, outcome)
        /\ op' = [name |-> "execute", args |-> args, handoff |-> outcome]
        /\ invoked' = <<>>
        /\ UNCHANGED <<registrations, created, handoff>>

\* The method of command built from the path as given, not normalized.
commandMethod_notNormalized(path) ==
    <<"xCommand", "/">> \o
        (IF "arr" \in DOMAIN path THEN join(path.arr, "/") ELSE path.str)

\* command(path, params, body): the method name.
commandMethod(path) == <<"xCommand", "/">> \o join(normalizePath(path), "/")

\* executeParams of command that drops params when a body is given.
commandParams_bodyOnly(args) ==
    IF "body" \notin DOMAIN args
    THEN IF "params" \in DOMAIN args THEN [params |-> args.params]
         ELSE EmptyObject
    ELSE [params |-> [body |-> args.body]]

\* executeParams of command: params when body is undefined, else
\* Object.assign({ body }, params).
commandParams(args) ==
    IF "body" \notin DOMAIN args
    THEN IF "params" \in DOMAIN args THEN [params |-> args.params]
         ELSE EmptyObject
    ELSE [params |-> ObjectAssign([body |-> args.body],
                        IF "params" \in DOMAIN args THEN args.params
                        ELSE EmptyObject)]

command(args, outcome) ==
    execute(commandMethod(args.path), commandParams(args), outcome)

----------------------------------------------------------------------------
(* The section components: Config, Event and Status *)

\* The prefix each section passes to the constructor of Component.
Prefix(section) ==
    CASE section = "config" -> <<"Configuration">>
      [] section = "event" -> <<"Event">>
      [] section = "status" -> <<"Status">>

\* The sections that have the members of Gettable, Settable and Listenable.
Gettable == {"config", "status"}
Settable == {"config"}
Listenable == {"config", "event", "status"}

\* Component.normalizePath without the prefix.
componentNormalizePath_noPrefix(prefix, path) == normalizePath(path)

\* Component.normalizePath(path): the normalized path after the prefix of the
\* component, when it has one.
componentNormalizePath(prefix, path) ==
    LET normalized == normalizePath(path)
    IN  IF prefix = <<>> THEN normalized ELSE <<prefix>> \o normalized

\* GettableImpl.get(path)
gettableGet(section, path, outcome) ==
    execute(<<"xGet">>,
            [params |-> [Path |-> componentNormalizePath(Prefix(section), path)]],
            outcome)

\* SettableImpl.set(path, value)
settableSet(section, path, value, outcome) ==
    execute(<<"xSet">>,
            [params |-> [Path |-> componentNormalizePath(Prefix(section), path),
                         Value |-> value]],
            outcome)

\* ListenableImpl.on registering the path as given, without the prefix.
listenableOn_noPrefix(section, path, listener) ==
    feedbackRegister(normalizePath(path), listener, FALSE,
                     [section |-> section, path |-> path, method |-> "on"])

\* ListenableImpl.on(path, listener)
listenableOn(section, path, listener) ==
    feedbackRegister(componentNormalizePath(Prefix(section), path), listener,
                     FALSE,
                     [section |-> section, path |-> path, method |-> "on"])

\* ListenableImpl.once calling feedback.on.
listenableOnce_callsOn(section, path, listener) ==
    feedbackRegister(componentNormalizePath(Prefix(section), path), listener,
                     FALSE,
                     [section |-> section, path |-> path, method |-> "once"])

\* ListenableImpl.once(path, listener)
listenableOnce(section, path, listener) ==
    feedbackRegister(componentNormalizePath(Prefix(section), path), listener,
                     TRUE,
                     [section |-> section, path |-> path, method |-> "once"])

\* What on and once return, taken for feedback.off.
listenableHandle_isOff(handle) == feedbackOff

\* What on and once return: the handle that feedback.on / feedback.once
\* returned; invoking it invokes that handle.
listenableHandle(handle) == deactivate(handle)

\* ListenableImpl.off removing the registrations made through its own
\* section only.
listenableOff_ownOnly(section) ==
    /\ registrations' =
          SelectSeq(registrations, LAMBDA r : r.origin.section # section)
    /\ UNCHANGED created

\* ListenableImpl.off(): this.xapi.feedback.off(), whatever the section.
listenableOff(section) == feedbackOff

----------------------------------------------------------------------------
(* The handlers of the session *)

\* The arguments of this.feedback.dispatch(response.params): params is
\* absent when the payload has none.
DispatchArguments(response) ==
    IF "params" \in DOMAIN response
    THEN [params |-> response.params] ELSE EmptyObject

\* handleResponse rejecting with a new Error instead of the error value.
handleResponse_wrapsError(response) ==
    LET id == Get(response, "id") IN
    IF "method" \in DOMAIN response /\ response.method = FeedbackEvent
    THEN /\ dispatched' = <<DispatchArguments(response)>>
         /\ feedbackDispatch(DispatchArguments(response))
         /\ thrown' = "none"
         /\ UNCHANGED <<requests, promises>>
    ELSE /\ dispatched' = <<>>
         /\ invoked' = <<>>
         /\ UNCHANGED <<registrations, created>>
         /\ IF id \notin DOMAIN requests
            THEN \* destructuring this.requests[id], which is undefined
                 /\ thrown' = "TypeError"
                 /\ UNCHANGED <<requests, promises>>
            ELSE /\ thrown' = "none"
                 /\ promises' =
                      [promises EXCEPT ![requests[id]] =
                         IF "result" \in DOMAIN response
                         THEN Settle(@, "fulfilled", response.result)
                         ELSE Settle(@, "rejected", "Error")]
                 /\ requests' = Delete(requests, id)

\* handleResponse without the delete of the answered entry.
handleResponse_keepsEntry(response) ==
    LET id == Get(response, "id") IN
    IF "method" \in DOMAIN response /\ response.method = FeedbackEvent
    THEN /\ dispatched' = <<DispatchArguments(response)>>
         /\ feedbackDispatch(DispatchArguments(response))
         /\ thrown' = "none"
         /\ UNCHANGED <<requests, promises>>
    ELSE /\ dispatched' = <<>>
         /\ invoked' = <<>>
         /\ UNCHANGED <<registrations, created>>
         /\ IF id \notin DOMAIN requests
            THEN \* destructuring this.requests[id], which is undefined
                 /\ thrown' = "TypeError"
                 /\ UNCHANGED <<requests, promises>>
            ELSE /\ thrown' = "none"
                 /\ promises' =
                      [promises EXCEPT ![requests[id]] =
                         IF "result" \in DOMAIN response
                         THEN Settle(@, "fulfilled", response.result)
                         ELSE Settle(@, "rejected", Get(response, "error"))]
                 /\ requests' = requests

\* handleResponse treating every payload as a correlated response.
handleResponse_noRouting(response) ==
    LET id == Get(response, "id") IN
    IF FALSE
    THEN /\ dispatched' = <<DispatchArguments(response)>>
         /\ feedbackDispatch(DispatchArguments(response))
         /\ thrown' = "none"
         /\ UNCHANGED <<requests, promises>>
    ELSE /\ dispatched' = <<>>
         /\ invoked' = <<>>
         /\ UNCHANGED <<registrations, created>>
         /\ IF id \notin DOMAIN requests
            THEN \* destructuring this.requests[id], which is undefined
                 /\ thrown' = "TypeError"
                 /\ UNCHANGED <<requests, promises>>
            ELSE /\ thrown' = "none"
                 /\ promises' =
                      [promises EXCEPT ![requests[id]] =
                         IF "result" \in DOMAIN response
                         THEN Settle(@, "fulfilled", response.result)
                         ELSE Settle(@, "rejected", Get(response, "error"))]
                 /\ requests' = Delete(requests, id)

\* handleResponse classifying by the truthiness of response.result.
handleResponse_truthyResult(response) ==
    LET id == Get(response, "id") IN
    IF "method" \in DOMAIN response /\ response.method = FeedbackEvent
    THEN /\ dispatched' = <<DispatchArguments(response)>>
         /\ feedbackDispatch(DispatchArguments(response))
         /\ thrown' = "none"
         /\ UNCHANGED <<requests, promises>>
    ELSE /\ dispatched' = <<>>
         /\ invoked' = <<>>
         /\ UNCHANGED <<registrations, created>>
         /\ IF id \notin DOMAIN requests
            THEN \* destructuring this.requests[id], which is undefined
                 /\ thrown' = "TypeError"
                 /\ UNCHANGED <<requests, promises>>
            ELSE /\ thrown' = "none"
                 /\ promises' =
                      [promises EXCEPT ![requests[id]] =
                         IF "result" \in DOMAIN response /\ response.result # Null
                         THEN Settle(@, "fulfilled", response.result)
                         ELSE Settle(@, "rejected", Get(response, "error"))]
                 /\ requests' = Delete(requests, id)

\* handleResponse(response): the listener of the transport's data event.
handleResponse(response) ==
    LET id == Get(response, "id") IN
    IF "method" \in DOMAIN response /\ response.method = FeedbackEvent
    THEN /\ dispatched' = <<DispatchArguments(response)>>
         /\ feedbackDispatch(DispatchArguments(response))
         /\ thrown' = "none"
         /\ UNCHANGED <<requests, promises>>
    ELSE /\ dispatched' = <<>>
         /\ invoked' = <<>>
         /\ UNCHANGED <<registrations, created>>
         /\ IF id \notin DOMAIN requests
            THEN \* destructuring this.requests[id], which is undefined
                 /\ thrown' = "TypeError"
                 /\ UNCHANGED <<requests, promises>>
            ELSE /\ thrown' = "none"
                 /\ promises' =
                      [promises EXCEPT ![requests[id]] =
                         IF "result" \in DOMAIN response
                         THEN Settle(@, "fulfilled", response.result)
                         ELSE Settle(@, "rejected", Get(response, "error"))]
                 /\ requests' = Delete(requests, id)

\* The listeners the constructor puts on the transport's close, error and
\* ready events.
\* A close listener that also fails every pending request.
onClose_failsPending ==
    /\ emitted' = <<[event |-> "close"]>>
    /\ promises' = [k \in 1..Len(promises) |->
                       Settle(promises[k], "rejected", "closed")]
    /\ requests' = EmptyObject

onClose ==
    /\ emitted' = <<[event |-> "close"]>>
    /\ UNCHANGED <<requests, promises>>

\* An error listener that emits error without the error value.
onError_dropsError(error) ==
    /\ emitted' = <<[event |-> "error", arg |-> Undefined]>>
    /\ UNCHANGED <<requests, promises>>

onError(error) ==
    /\ emitted' = <<[event |-> "error", arg |-> error]>>
    /\ UNCHANGED <<requests, promises>>

onReady ==
    /\ emitted' = <<[event |-> "ready", arg |-> "this"]>>
    /\ UNCHANGED <<requests, promises>>

\* close(): this.backend.close()
close ==
    /\ backendCalls' = <<[call |-> "close"]>>
    /\ UNCHANGED <<requests, promises>>

----------------------------------------------------------------------------
(* The inputs of the model *)

\* The paths whose three input forms the model passes to command.
CanonicalPaths ==
    { <<<<"Presentation">>, <<"Start">>>>,
      <<<<"UserInterface">>, <<"Extensions">>, <<"Set">>>>,
      <<<<"Dial">>>> }

SpaceForm(segments) == [str |-> join(segments, " ")]
SlashForm(segments) == [str |-> join(segments, "/")]
ArrayForm(segments) == [arr |-> segments]

PathInputs ==
    UNION { {SpaceForm(s), SlashForm(s), ArrayForm(s)} : s \in CanonicalPaths }
    \cup { [str |-> <<"Audio", "/", "Volume", " ", "Set">>] }

ParamsInputs ==
    { EmptyObject,
      [params |-> [ConfigId |-> "x"]],
      [params |-> [ConfigId |-> "x", body |-> "own"]] }

BodyInputs == { EmptyObject, [body |-> "<Extensions/>"] }

CommandInputs ==
    { ObjectAssign(ObjectAssign([path |-> p], ps), b) :
        p \in PathInputs, ps \in ParamsInputs, b \in BodyInputs }

\* The paths and the values the model passes to the sections.
SectionPaths ==
    { [str |-> <<"Audio", " ", "Volume">>],
      [str |-> <<"Audio", "/", "Volume">>],
      [arr |-> <<<<"Audio">>>>] }

Values == {"100", "My System"}

\* The paths and the listeners the model registers feedback for.
ListenPaths ==
    { [arr |-> <<<<"Audio">>>>],
      [str |-> <<"Audio", " ", "Volume">>] }

Listeners == {"L1", "L2"}

Results == {"r1", "r2"}
Errors == {"e1", "e2"}
InboundIds == {toString(n) : n \in 1..(MaxRequests + 1)}

\* The payloads the transport delivers: success and failure responses, with
\* and without an id, and feedback notifications, with and without an id.
Responses ==
    UNION { {[id |-> i, result |-> r] : r \in Results}
            \cup {[id |-> i, error |-> e] : e \in Errors}
            \cup {[id |-> i, result |-> "r1", error |-> "e1"],
                  [id |-> i, result |-> Null],
                  [id |-> i, result |-> Null, error |-> "e2"],
                  [id |-> i],
                  [id |-> i, method |-> <<"xGet">>, result |-> "r2"]}
          : i \in InboundIds }
    \cup {[result |-> "r1"], [error |-> "e1"]}

Notifications ==
    { [method |-> FeedbackEvent,
       params |-> Obj([Status |-> Obj([Audio |-> Obj([Volume |->
                                                       Scalar("50")])])])],
      [method |-> FeedbackEvent,
       params |-> Obj([Status |-> Obj([Audio |-> Scalar("on")])])],
      [method |-> FeedbackEvent,
       params |-> Obj([Status |-> Obj([Video |-> Obj([Input |->
                                                       Scalar("1")])])])],
      [method |-> FeedbackEvent,
       params |-> Obj([Status |-> Scalar("up")])],
      [method |-> FeedbackEvent,
       params |-> Obj([Configuration |-> Obj([Audio |-> Obj([Volume |->
                                                       Scalar("70")])])])],
      [method |-> FeedbackEvent] }
    \cup UNION { {[id |-> i, method |-> FeedbackEvent,
                   params |-> Obj([Event |-> Obj([Audio |-> Scalar("hi")])])],
                  [id |-> i, method |-> FeedbackEvent, result |-> "r1"]}
               : i \in InboundIds }

Inbound == Responses \cup Notifications

----------------------------------------------------------------------------
(* The steps of a session *)

Command ==
    /\ Len(promises) < MaxRequests
    /\ \E args \in CommandInputs, outcome \in BackendOutcomes :
        /\ command(args, outcome)
        /\ op' = [name |-> "command", args |-> args, handoff |-> outcome]
        /\ invoked' = <<>>
        /\ UNCHANGED <<registrations, created, handoff>>

\* A client calls get(path) of a section.
SectionGet ==
    /\ Len(promises) < MaxRequests
    /\ \E section \in Gettable, path \in SectionPaths,
          outcome \in BackendOutcomes :
        /\ gettableGet(section, path, outcome)
        /\ op' = [name |-> "get", section |-> section, path |-> path,
                  handoff |-> outcome]
        /\ invoked' = <<>>
        /\ UNCHANGED <<registrations, created, handoff>>

\* A client calls set(path, value) of a section.
SectionSet ==
    /\ Len(promises) < MaxRequests
    /\ \E section \in Settable, path \in SectionPaths, value \in Values,
          outcome \in BackendOutcomes :
        /\ settableSet(section, path, value, outcome)
        /\ op' = [name |-> "set", section |-> section, path |-> path,
                  value |-> value, handoff |-> outcome]
        /\ invoked' = <<>>
        /\ UNCHANGED <<registrations, created, handoff>>

\* The session state that the feedback calls of a client leave alone, and
\* what such a call produces.
ListenFrame ==
    /\ backendCalls' = <<>>
    /\ emitted' = <<>>
    /\ dispatched' = <<>>
    /\ invoked' = <<>>
    /\ thrown' = "none"
    /\ UNCHANGED <<requestId, requests, promises, issued, inFlight, handoff>>

\* A client calls on(path, listener) of a section.
SectionOn ==
    /\ created < MaxRegistrations
    /\ \E section \in Listenable, path \in ListenPaths,
          listener \in Listeners :
        /\ listenableOn(section, path, listener)
        /\ op' = [name |-> "on", section |-> section, path |-> path,
                  listener |-> listener]
        /\ ListenFrame

\* A client calls once(path, listener) of a section.
SectionOnce ==
    /\ created < MaxRegistrations
    /\ \E section \in Listenable, path \in ListenPaths,
          listener \in Listeners :
        /\ listenableOnce(section, path, listener)
        /\ op' = [name |-> "once", section |-> section, path |-> path,
                  listener |-> listener]
        /\ ListenFrame

\* A client invokes a deactivation handle it was returned, for the first
\* time or again.
Deactivate ==
    \E handle \in 1..created :
        /\ listenableHandle(handle)
        /\ op' = [name |-> "deactivate", handle |-> handle]
        /\ ListenFrame

\* A client calls off() of a section.
SectionOff ==
    \E section \in Listenable :
        /\ listenableOff(section)
        /\ op' = [name |-> "off", section |-> section]
        /\ ListenFrame

\* The transport emits data(response).
BackendData ==
    \E response \in Inbound :
        /\ handleResponse(response)
        /\ op' = [name |-> "data", response |-> response]
        /\ inFlight' = IF "method" \in DOMAIN response
                          /\ response.method = FeedbackEvent
                       THEN inFlight
                       ELSE inFlight \ {Get(response, "id")}
        /\ backendCalls' = <<>>
        /\ emitted' = <<>>
        /\ UNCHANGED <<requestId, issued, handoff>>

\* The transport emits close.
BackendClose ==
    /\ onClose
    /\ op' = [name |-> "close"]
    /\ backendCalls' = <<>>
    /\ dispatched' = <<>>
    /\ thrown' = "none"
    /\ invoked' = <<>>
    /\ UNCHANGED <<requestId, issued, registrations, created, inFlight,
                   handoff>>

\* The transport emits error(err).
BackendError ==
    \E error \in Errors :
        /\ onError(error)
        /\ op' = [name |-> "error", error |-> error]
        /\ backendCalls' = <<>>
        /\ dispatched' = <<>>
        /\ thrown' = "none"
        /\ invoked' = <<>>
        /\ UNCHANGED <<requestId, issued, registrations, created, inFlight,
                       handoff>>

\* The transport emits ready.
BackendReady ==
    /\ onReady
    /\ op' = [name |-> "ready"]
    /\ backendCalls' = <<>>
    /\ dispatched' = <<>>
    /\ thrown' = "none"
    /\ invoked' = <<>>
    /\ UNCHANGED <<requestId, issued, registrations, created, inFlight,
                   handoff>>

\* The caller closes the session.
Close ==
    /\ close
    /\ op' = [name |-> "closeCall"]
    /\ emitted' = <<>>
    /\ dispatched' = <<>>
    /\ thrown' = "none"
    /\ invoked' = <<>>
    /\ UNCHANGED <<requestId, issued, registrations, created, inFlight,
                   handoff>>

Next ==
    \/ Execute
    \/ Command
    \/ SectionGet
    \/ SectionSet
    \/ BackendData
    \/ BackendClose
    \/ BackendError
    \/ BackendReady
    \/ Close

Spec == Init /\ [][Next]_vars

\* The transport emits data(notification), a feedback notification without
\* an id.
BackendNotification ==
    \E response \in {n \in Notifications : "id" \notin DOMAIN n} :
        /\ handleResponse(response)
        /\ op' = [name |-> "data", response |-> response]
        /\ backendCalls' = <<>>
        /\ emitted' = <<>>
        /\ UNCHANGED <<requestId, issued, inFlight, handoff>>

\* A session whose clients register and remove feedback listeners while the
\* transport delivers feedback notifications.
NextFeedback ==
    \/ SectionOn
    \/ SectionOnce
    \/ Deactivate
    \/ SectionOff
    \/ BackendNotification

SpecFeedback == Init /\ [][NextFeedback]_vars

\* execute(method, params) up to the call of backend.execute(request): the
\* promise exists, the id is allocated and the envelope is in the transport's
\* hands; this.requests[id] is not assigned yet.
executeBegin(method, args) ==
    \E id \in {toString(n) : n \in 0..(MaxRequests + 1)} :
        /\ nextRequestId(id)
        /\ backendCalls' = <<[call |-> "execute",
                              request |-> createRequest(id, method, args)]>>
        /\ issued' = Append(issued, id)
        /\ promises' = Append(promises, Pending)
        /\ inFlight' = inFlight \cup {id}
        /\ handoff' = [active |-> TRUE, id |-> id,
                       promise |-> Len(promises) + 1]
        /\ emitted' = <<>>
        /\ dispatched' = <<>>
        /\ thrown' = "none"
        /\ UNCHANGED requests

\* execute(method, params) from the return of backend.execute(request): a
\* normal return is followed by the assignment of this.requests[id]; a throw
\* rejects the promise and skips the assignment.
executeEnd(outcome) ==
    /\ IF outcome = "ok"
       THEN /\ requests' = ObjectAssign(requests,
                               [k \in {handoff.id} |-> handoff.promise])
            /\ promises' = promises
       ELSE /\ promises' = [promises EXCEPT ![handoff.promise] =
                               IF @.state = "pending"
                               THEN Settle(@, "rejected", outcome) ELSE @]
            /\ requests' = requests
    /\ handoff' = NoHandoff
    /\ backendCalls' = <<>>
    /\ emitted' = <<>>
    /\ dispatched' = <<>>
    /\ thrown' = "none"
    /\ UNCHANGED <<requestId, issued, inFlight>>

\* A client calls execute; the call is inside backend.execute afterwards.
ExecuteBegin ==
    /\ ~handoff.active
    /\ Len(promises) < MaxRequests
    /\ \E args \in ExecuteInputs :
        /\ executeBegin(args.method, args)
        /\ op' = [name |-> "executeBegin", args |-> args]
        /\ invoked' = <<>>
        /\ UNCHANGED <<registrations, created>>

\* backend.execute returns or throws. What a listener threw while the
\* transport emitted data inside backend.execute leaves backend.execute too,
\* unless the transport caught it.
ExecuteEnd ==
    /\ handoff.active
    /\ \E outcome \in BackendOutcomes \cup ({thrown} \ {"none"}) :
        /\ executeEnd(outcome)
        /\ op' = [name |-> "executeEnd", handoff |-> outcome]
        /\ invoked' = <<>>
        /\ UNCHANGED <<registrations, created>>

\* A session whose transport may emit data while backend.execute runs, as
\* well as between the calls.
NextReentrant ==
    \/ ExecuteBegin
    \/ ExecuteEnd
    \/ BackendData

SpecReentrant == Init /\ [][NextReentrant]_vars

\* The transport emits data(response) for a request it was handed and has
\* not answered yet.
Deliver ==
    \E response \in {r \in Responses :
                        "id" \in DOMAIN r /\ r.id \in inFlight} :
        /\ handleResponse(response)
        /\ op' = [name |-> "data", response |-> response]
        /\ inFlight' = inFlight \ {response.id}
        /\ backendCalls' = <<>>
        /\ emitted' = <<>>
        /\ UNCHANGED <<requestId, issued, handoff>>

\* A session on a transport that answers every request it was handed
\* exactly once, in any order, between feedback notifications.
NextLive ==
    \/ Execute
    \/ Deliver
    \/ BackendNotification

SpecLive == Init /\ [][NextLive]_vars /\ WF_vars(Deliver)

----------------------------------------------------------------------------
(* Properties *)

\* The payload is a feedback notification.
IsNotification(payload) ==
    "method" \in DOMAIN payload /\ payload.method = FeedbackEvent

\* The step handles an inbound payload that is not a feedback notification
\* and carries id i.
ResponseStepFor(i) ==
    /\ op'.name = "data"
    /\ ~IsNotification(op'.response)
    /\ Get(op'.response, "id") = i

\* The calls of execute that were issued id i.
CallsIssued(i) == {k \in 1..Len(issued) : issued[k] = i}

\* C1: a response that carries the id of a pending request and a result
\* field fulfils the promise of the one execute call that was issued that id,
\* with that result, and changes no other promise.
CorrelationCorrectness ==
    [][\A i \in DOMAIN requests :
          (ResponseStepFor(i) /\ "result" \in DOMAIN op'.response)
          => \E k \in 1..Len(promises) :
                /\ CallsIssued(i) = {k}
                /\ promises[k].state = "pending"
                /\ promises'[k] = [state |-> "fulfilled",
                                   value |-> op'.response.result]
                /\ Len(promises') = Len(promises)
                /\ \A j \in 1..Len(promises) :
                      j # k => promises'[j] = promises[j]]_vars

\* Two requests are pending and the response of the second one arrives
\* first: the second promise is fulfilled with its result, the first one is
\* still pending.
CorrelationWitness ==
    /\ op.name = "data"
    /\ Len(promises) = 2
    /\ "result" \in DOMAIN op.response
    /\ Get(op.response, "id") = issued[2]
    /\ promises[2] = [state |-> "fulfilled", value |-> "r2"]
    /\ promises[1].state = "pending"

\* C2: a failure response (an error field instead of a result) that carries
\* the id of a pending request rejects the promise of that request with
\* exactly that error value, and the pending entry is removed.
ErrorPropagation ==
    [][\A i \in DOMAIN requests :
          (/\ ResponseStepFor(i)
           /\ "result" \notin DOMAIN op'.response
           /\ "error" \in DOMAIN op'.response)
          => \E k \in 1..Len(promises) :
                /\ CallsIssued(i) = {k}
                /\ promises[k].state = "pending"
                /\ promises'[k] = [state |-> "rejected",
                                   value |-> op'.response.error]
                /\ i \notin DOMAIN requests']_vars

ErrorPropagationWitness ==
    /\ op.name = "data"
    /\ op.response = [id |-> "1", error |-> "e2"]
    /\ Len(promises) >= 1
    /\ issued[1] = "1"
    /\ promises[1] = [state |-> "rejected", value |-> "e2"]
    /\ "1" \notin DOMAIN requests

\* The number an id is the string form of.
IdNumber(id) == CHOOSE n \in 0..(MaxRequests + 2) : toString(n) = id

\* C3: the ids issued by the successive execute calls start at "1", are
\* strictly increasing in issuance order and are never reused; every promise
\* that is still pending is registered under the id of its own call, so no
\* two pending requests share an id and no execute has overwritten the entry
\* of a pending request.
IdUniqueness ==
    /\ Len(issued) > 0 => issued[1] = "1"
    /\ \A j, k \in 1..Len(issued) :
          j < k => IdNumber(issued[j]) < IdNumber(issued[k])
    /\ Len(promises) = Len(issued)
    /\ \A k \in 1..Len(promises) :
          promises[k].state = "pending"
          => issued[k] \in DOMAIN requests /\ requests[issued[k]] = k
    /\ \A i \in DOMAIN requests : issued[requests[i]] = i

\* A second request was issued after the response of the first one arrived,
\* and a third id would follow.
IdUniquenessWitness ==
    /\ issued = <<"1", "2">>
    /\ promises[1].state = "fulfilled"
    /\ promises[2].state = "pending"
    /\ DOMAIN requests = {"2"}

\* C4: a payload that is not a feedback notification and whose id has no
\* pending request does not throw and leaves the pending map and every
\* promise unchanged.
UnknownIdDropped ==
    [][(/\ op'.name = "data"
        /\ ~IsNotification(op'.response)
        /\ Get(op'.response, "id") \notin DOMAIN requests)
       => /\ thrown' = "none"
          /\ requests' = requests
          /\ promises' = promises]_vars

\* C5: an entry of the pending map is created by execute alone; a response
\* that carries its id, success or failure, removes it and settles its
\* promise in the same step; a settled promise never changes again.
PendingRequestLifecycle ==
    [][/\ \A i \in DOMAIN requests' \ DOMAIN requests :
             /\ op'.name \in {"execute", "command", "get", "set"}
             /\ i = issued'[Len(issued')]
             /\ requests'[i] = Len(promises')
             /\ promises'[requests'[i]].state = "pending"
       /\ \A i \in DOMAIN requests :
             ResponseStepFor(i)
             => /\ i \notin DOMAIN requests'
                /\ promises[requests[i]].state = "pending"
                /\ promises'[requests[i]].state # "pending"
       /\ \A k \in 1..Len(promises) :
             promises[k].state # "pending"
             => /\ Len(promises') >= k
                /\ promises'[k] = promises[k]]_vars

\* The failure response of the first of two pending requests was handled:
\* its entry is gone, its promise is settled, the other request is pending.
PendingRequestLifecycleWitness ==
    /\ op.name = "data"
    /\ op.response = [id |-> "1", error |-> "e1"]
    /\ Len(promises) = 2
    /\ promises[1] = [state |-> "rejected", value |-> "e1"]
    /\ promises[2].state = "pending"
    /\ DOMAIN requests = {"2"}

\* C6: a payload whose method is "xFeedback/Event" is passed to the feedback
\* dispatcher once, with its params, and leaves the pending map and the
\* promises alone; any other payload is not passed to the dispatcher.
InboundRouting ==
    [][op'.name = "data"
       => IF IsNotification(op'.response)
          THEN /\ dispatched' =
                    <<IF "params" \in DOMAIN op'.response
                      THEN [params |-> op'.response.params]
                      ELSE EmptyObject>>
               /\ requests' = requests
               /\ promises' = promises
          ELSE dispatched' = <<>>]_vars

\* A notification that carries the id of a pending request was dispatched.
InboundRoutingWitness ==
    /\ op.name = "data"
    /\ IsNotification(op.response)
    /\ Get(op.response, "id") \in DOMAIN requests
    /\ "params" \in DOMAIN op.response
    /\ dispatched = <<[params |-> op.response.params]>>

\* C7: the entry and the promise of a pending request change only in a step
\* that handles a response carrying its own id.
OnlyOwnResponseSettles ==
    [][\A i \in DOMAIN requests :
          (\/ i \notin DOMAIN requests'
           \/ requests'[i] # requests[i]
           \/ promises'[requests[i]] # promises[requests[i]])
          => ResponseStepFor(i)]_vars

\* The transport reported an error while two requests were pending, and
\* both still are.
OnlyOwnResponseSettlesWitness ==
    /\ op.name = "error"
    /\ DOMAIN requests = {"1", "2"}
    /\ \A i \in DOMAIN requests : promises[requests[i]].state = "pending"

\* C8: a ready, close or error event of the transport makes the facade emit
\* exactly one event of the same kind, error with the same error value; no
\* other step makes the facade emit anything.
LifecyclePassThrough ==
    IF op.name \in {"ready", "close", "error"}
    THEN /\ Len(emitted) = 1
         /\ emitted[1].event = op.name
         /\ op.name = "error" => emitted[1].arg = op.error
    ELSE emitted = <<>>

LifecyclePassThroughWitness ==
    /\ op = [name |-> "error", error |-> "e2"]
    /\ emitted = <<[event |-> "error", arg |-> "e2"]>>

PresentationStart == <<<<"Presentation">>, <<"Start">>>>
ExtensionsSet == <<<<"UserInterface">>, <<"Extensions">>, <<"Set">>>>

\* C9: command(path, params, body) hands the transport exactly one envelope;
\* its method is "xCommand/" followed by the slash-joined normalized path; it
\* has params exactly when params or body was given, and they are params
\* itself when body is undefined and { body, ...params } otherwise.  The
\* first command of a session, command("Presentation Start"), hands over
\* { id: "1", method: "xCommand/Presentation/Start" }, and a second call
\* command("UserInterface Extensions Set", { ConfigId: "x" }, body) hands over
\* id "2", method "xCommand/UserInterface/Extensions/Set" and params
\* { body, ConfigId: "x" }.
CommandEnvelopes ==
    op.name = "command"
    => /\ Len(backendCalls) = 1
       /\ backendCalls[1].call = "execute"
       /\ LET request == backendCalls[1].request
              args == op.args
              given == IF "params" \in DOMAIN args THEN args.params
                       ELSE EmptyObject
          IN  /\ DOMAIN request \subseteq {"id", "method", "params"}
              /\ request.id = issued[Len(issued)]
              /\ request.method =
                    <<"xCommand", "/">> \o join(normalizePath(args.path), "/")
              /\ IF "body" \notin DOMAIN args
                 THEN /\ "params" \in DOMAIN request <=> "params" \in DOMAIN args
                      /\ "params" \in DOMAIN args => request.params = args.params
                 ELSE /\ "params" \in DOMAIN request
                      /\ DOMAIN request.params = {"body"} \cup DOMAIN given
                      /\ \A k \in DOMAIN given : request.params[k] = given[k]
                      /\ "body" \notin DOMAIN given
                            => request.params.body = args.body
              /\ (Len(issued) = 1 /\ args = [path |-> SpaceForm(PresentationStart)])
                 => request = [id |-> "1",
                               method |-> <<"xCommand", "/", "Presentation",
                                            "/", "Start">>]
              /\ (/\ Len(issued) = 2
                  /\ args = [path |-> SpaceForm(ExtensionsSet),
                             params |-> [ConfigId |-> "x"],
                             body |-> "<Extensions/>"])
                 => request = [id |-> "2",
                               method |-> <<"xCommand", "/", "UserInterface", "/",
                                            "Extensions", "/", "Set">>,
                               params |-> [body |-> "<Extensions/>",
                                           ConfigId |-> "x"]]

CommandEnvelopesWitness ==
    /\ op.name = "command"
    /\ op.args.path = [str |-> <<"UserInterface", " ", "Extensions", " ", "Set">>]
    /\ issued = <<"1", "2">>
    /\ backendCalls =
          <<[call |-> "execute",
             request |-> [id |-> "2",
                          method |-> <<"xCommand", "/", "UserInterface", "/",
                                       "Extensions", "/", "Set">>,
                          params |-> [body |-> "<Extensions/>",
                                      ConfigId |-> "x"]]]>>

\* C10: the space-delimited, the slash-delimited and the array form of a
\* path normalize to the same sequence of segments, so command emits the same
\* method for the three; normalizing a normalized path returns it unchanged.
PathFormEquivalence ==
    /\ \A s \in CanonicalPaths :
          /\ normalizePath(SpaceForm(s)) = s
          /\ normalizePath(SlashForm(s)) = s
          /\ normalizePath(ArrayForm(s)) = s
    /\ \A p \in PathInputs :
          normalizePath(ArrayForm(normalizePath(p))) = normalizePath(p)
    /\ op.name = "command"
       => \A s \in CanonicalPaths :
             op.args.path \in {SpaceForm(s), SlashForm(s), ArrayForm(s)}
             => backendCalls[1].request.method =
                   <<"xCommand", "/">> \o join(s, "/")

PathFormEquivalenceWitness ==
    /\ op.name = "command"
    /\ op.args.path = SlashForm(PresentationStart)
    /\ backendCalls[1].request.method =
          <<"xCommand", "/", "Presentation", "/", "Start">>

\* C11: get(path) of a section hands the transport exactly one envelope, with
\* method "xGet" and params { Path: [prefix, ...normalize(path)] }; set(path,
\* value) hands it exactly one envelope, with method "xSet" and params
\* { Path: [prefix, ...normalize(path)], Value: value }; prefix is
\* "Configuration" for config and "Status" for status; each call takes one
\* request id; config is the only section with set, and event has no get.
SectionPrefixing ==
    [][/\ Settable = {"config"}
       /\ Gettable = {"config", "status"}
       /\ op'.name \in {"get", "set"}
          => LET prefix == IF op'.section = "config"
                           THEN <<"Configuration">> ELSE <<"Status">>
                 Path == <<prefix>> \o normalizePath(op'.path)
             IN  /\ op'.section \in {"config", "status"}
                 /\ op'.name = "set" => op'.section = "config"
                 /\ requestId' = requestId + 1
                 /\ Len(issued') = Len(issued) + 1
                 /\ issued'[Len(issued')] = toString(requestId)
                 /\ backendCalls' =
                      <<[call |-> "execute",
                         request |->
                           [id |-> toString(requestId),
                            method |-> IF op'.name = "get" THEN <<"xGet">>
                                       ELSE <<"xSet">>,
                            params |-> IF op'.name = "get"
                                       THEN [Path |-> Path]
                                       ELSE [Path |-> Path,
                                             Value |-> op'.value]]]>>]_vars

SectionPrefixingWitness ==
    /\ op.name = "set"
    /\ op.path = [str |-> <<"Audio", " ", "Volume">>]
    /\ backendCalls =
          <<[call |-> "execute",
             request |-> [id |-> "2", method |-> <<"xSet">>,
                          params |-> [Path |-> <<<<"Configuration">>,
                                                 <<"Audio">>, <<"Volume">>>>,
                                      Value |-> "100"]]]>>

\* The handles of the live registrations.
LiveHandles == {registrations[i].handle : i \in 1..Len(registrations)}

\* The handles of the registrations whose listener the last step called.
InvokedHandles == {invoked[i].handle : i \in 1..Len(invoked)}

\* The path a registration listens on: the prefix of the section it was made
\* through, then the normalized path its caller gave.
ListenedPath(r) ==
    <<Prefix(r.origin.section)>> \o normalizePath(r.origin.path)

\* p is equal to q or a prefix of it.
IsPrefixOf(p, q) == Len(p) <= Len(q) /\ SubSeq(q, 1, Len(p)) = p

\* The step handles a feedback notification.
NotificationStep ==
    op'.name = "data" /\ IsNotification(op'.response)

StatusAudioVolume ==
    Obj([Status |-> Obj([Audio |-> Obj([Volume |-> Scalar("50")])])])
StatusVideoInput ==
    Obj([Status |-> Obj([Video |-> Obj([Input |-> Scalar("1")])])])

\* C12: the listener of a registration made with on is called for a feedback
\* notification exactly when the registration's path (section prefix, then
\* the normalized path) is equal to the notification's path or a prefix of
\* it, so never when it is longer or diverges; status.on(["Audio"]) is called
\* for Status/Audio/Volume and not for Status/Video/Input.
FeedbackPrefixMatching ==
    [][NotificationStep
       => \A i \in 1..Len(registrations) :
             LET r == registrations[i]
                 called == \E j \in 1..Len(invoked') :
                              /\ invoked'[j].handle = r.handle
                              /\ invoked'[j].listener = r.listener
                 notified == IF "params" \in DOMAIN op'.response
                             THEN PathOf(op'.response.params) ELSE <<>>
             IN  r.origin.method = "on"
                 => /\ called <=> IsPrefixOf(ListenedPath(r), notified)
                    /\ (/\ r.origin.section = "status"
                        /\ r.origin.path = [arr |-> <<<<"Audio">>>>]
                        /\ "params" \in DOMAIN op'.response)
                       => /\ op'.response.params = StatusAudioVolume => called
                          /\ op'.response.params = StatusVideoInput
                                => ~called]_vars

\* status.on(["Audio"]) and status.on("Audio Volume") are registered and the
\* notification Status/Audio arrives: the first listener is called, the
\* second, whose path is longer, is not.
FeedbackPrefixMatchingWitness ==
    /\ op.name = "data"
    /\ Len(registrations) = 2
    /\ registrations[1].origin =
          [section |-> "status", path |-> [arr |-> <<<<"Audio">>>>],
           method |-> "on"]
    /\ registrations[2].origin =
          [section |-> "status", path |-> [str |-> <<"Audio", " ", "Volume">>],
           method |-> "on"]
    /\ "params" \in DOMAIN op.response
    /\ PathOf(op.response.params) = <<<<"Status">>, <<"Audio">>>>
    /\ InvokedHandles = {registrations[1].handle}

\* C13: the listener of a registration made with once is called by the first
\* matching notification, and that registration is removed in the same step;
\* only live registrations are called and a removed one never comes back, so
\* no later notification calls it, and none calls it after its handle was
\* invoked.
OnceSemantics ==
    [][/\ NotificationStep
          => /\ InvokedHandles' \subseteq LiveHandles
             /\ \A i \in 1..Len(registrations) :
                   LET r == registrations[i]
                       notified == IF "params" \in DOMAIN op'.response
                                   THEN PathOf(op'.response.params) ELSE <<>>
                   IN  (/\ r.origin.method = "once"
                        /\ IsPrefixOf(ListenedPath(r), notified))
                       => /\ Cardinality({j \in 1..Len(invoked') :
                                 invoked'[j].handle = r.handle}) = 1
                          /\ r.handle \notin LiveHandles'
       /\ ~NotificationStep => invoked' = <<>>
       /\ op'.name = "deactivate" => op'.handle \notin LiveHandles'
       /\ \A h \in 1..created : h \notin LiveHandles => h \notin LiveHandles']_vars

\* A notification called the listener of a registration, which is gone
\* after the step: it was made with once.
OnceSemanticsWitness ==
    /\ op.name = "data"
    /\ Len(invoked) = 1
    /\ invoked[1].handle \notin LiveHandles
    /\ Len(registrations) = 1

\* C14: invoking the handle returned by on or once removes the registration
\* it was returned for and leaves every other registration in place, in
\* order; invoking it when that registration is gone changes nothing and
\* raises no error.
DeactivationIdempotence ==
    [][op'.name = "deactivate"
       => /\ registrations' =
                SelectSeq(registrations, LAMBDA r : r.handle # op'.handle)
          /\ op'.handle \notin LiveHandles => registrations' = registrations
          /\ thrown' = "none"
          /\ created' = created]_vars

\* The handle of one of two registrations on the same path was invoked: the
\* other registration is still there.
DeactivationIdempotenceWitness ==
    /\ op.name = "deactivate"
    /\ created = 2
    /\ Len(registrations) = 1
    /\ registrations[1].handle # op.handle
    /\ registrations[1].path = <<<<"Status">>, <<"Audio">>>>

ExecuteStep == op'.name \in {"execute", "command", "get", "set"}

\* C16: every execute call takes the counter's value as its id and
\* increments the counter, also when the handoff to the transport fails; the
\* id of a failed handoff is used up, so every id issued so far is below the
\* counter and the next call is issued a strictly greater one.
HandoffFailureConsumesId ==
    [][ExecuteStep
       => /\ requestId' = requestId + 1
          /\ issued' = Append(issued, toString(requestId))
          /\ op'.handoff # "ok"
             => /\ toString(requestId) \notin DOMAIN requests'
                /\ \A k \in 1..Len(issued') :
                      IdNumber(issued'[k]) < requestId'
                /\ \A k \in 1..Len(issued) :
                      IdNumber(issued[k]) < IdNumber(issued'[Len(issued')])]_vars

\* The handoff of the first call failed and a second call was made: it was
\* issued "2", not "1" again.
HandoffFailureConsumesIdWitness ==
    /\ op.name \in {"execute", "command", "get", "set"}
    /\ issued = <<"1", "2">>
    /\ promises[1] = [state |-> "rejected", value |-> "EPIPE"]
    /\ requestId = 3

\* C18: when backend.execute throws during the handoff, the promise the
\* call returns is rejected with the thrown value, nothing is registered
\* under the allocated id, and the pending map and the promises of the
\* earlier calls are as they were.
HandoffFailureRejects ==
    [][(ExecuteStep /\ op'.handoff # "ok")
       => /\ promises' = Append(promises, [state |-> "rejected",
                                           value |-> op'.handoff])
          /\ requests' = requests
          /\ \A i \in DOMAIN requests' : requests'[i] <= Len(promises)
          /\ thrown' = "none"]_vars

\* A request is pending and the handoff of a second call failed: the second
\* promise is rejected with the thrown value, the first is still pending and
\* registered.
HandoffFailureRejectsWitness ==
    /\ op.name \in {"execute", "command", "get", "set"}
    /\ op.handoff = "EPIPE"
    /\ Len(promises) = 2
    /\ promises[1].state = "pending"
    /\ promises[2] = [state |-> "rejected", value |-> "EPIPE"]
    /\ DOMAIN requests = {"1"}

\* C20: a response for a pending request that has its own result field
\* fulfils the promise with the result, also next to an error field and also
\* when the result is null; one without a result field rejects the promise
\* with the error field's value, which is undefined when there is none. The
\* entry is removed in each case and the other promises are untouched.
ResponseClassification ==
    [][\A i \in DOMAIN requests :
          ResponseStepFor(i)
          => LET k == requests[i]
                 r == op'.response
             IN  /\ promises[k].state = "pending"
                 /\ "result" \in DOMAIN r
                    => promises'[k] = [state |-> "fulfilled",
                                       value |-> r.result]
                 /\ ("result" \notin DOMAIN r /\ "error" \in DOMAIN r)
                    => promises'[k] = [state |-> "rejected",
                                       value |-> r.error]
                 /\ ("result" \notin DOMAIN r /\ "error" \notin DOMAIN r)
                    => promises'[k] = [state |-> "rejected",
                                       value |-> Undefined]
                 /\ i \notin DOMAIN requests'
                 /\ DOMAIN requests' = DOMAIN requests \ {i}
                 /\ \A j \in 1..Len(promises) :
                       j # k => promises'[j] = promises[j]]_vars

\* A response with a null result next to an error field fulfilled the first
\* promise with null; a response with neither field rejected the second one
\* with undefined.
ResponseClassificationWitness ==
    /\ op.name = "data"
    /\ op.response = [id |-> "2"]
    /\ Len(promises) = 2
    /\ promises[1] = [state |-> "fulfilled", value |-> Null]
    /\ promises[2] = [state |-> "rejected", value |-> Undefined]
    /\ requests = EmptyObject

\* C17: a response whose id is that of an envelope the transport was handed
\* finds the request registered under that id and settles its promise
\* without an error, also when the transport emits the response before
\* backend.execute has returned.
ReentrantDeliverySettles ==
    [][\A i \in inFlight :
          ResponseStepFor(i)
          => /\ i \in DOMAIN requests
             /\ thrown' = "none"
             /\ \A k \in CallsIssued(i) :
                   /\ promises[k].state = "pending"
                   /\ promises'[k].state \in {"fulfilled", "rejected"}
                   /\ promises'[k].value =
                         IF "result" \in DOMAIN op'.response
                         THEN op'.response.result
                         ELSE Get(op'.response, "error")]_vars

\* No request is pending: the map is empty and every promise is settled.
Quiescent ==
    /\ requests = EmptyObject
    /\ \A k \in 1..Len(promises) : promises[k].state # "pending"

\* C19: on a transport that answers every request it was handed exactly
\* once, every promise returned by execute is eventually settled, and once
\* the calls have ended the pending map becomes empty and stays empty,
\* whatever the order of the responses and whatever notifications come in
\* between.
CorrelationLiveness ==
    /\ <>[]Quiescent
    /\ \A k \in 1..MaxRequests :
          (Len(promises) >= k)
             ~> (Len(promises) >= k /\ promises[k].state # "pending")

\* Two requests were answered in the reverse order of their calls: the
\* response of the first came last, both promises are settled and the map is
\* empty.
CorrelationLivenessWitness ==
    /\ op.name = "data"
    /\ ~IsNotification(op.response)
    /\ issued = <<"1", "2">>
    /\ Get(op.response, "id") = "1"
    /\ promises[1].state = "fulfilled"
    /\ promises[2].state = "rejected"
    /\ promises[2].value = "e1"
    /\ requests = EmptyObject
    /\ inFlight = {}

====
